---- MODULE Spec2Model ----
(***************************************************************************)
(* Model of src/input/decoder_helpers.c: the reference-counted lifecycle   *)
(* of decoder devices and video contexts, the backend open protocol of     *)
(* vlc_decoder_device_Create, and the decoder helpers that forward to the  *)
(* owner's callback table.                                                 *)
(*                                                                         *)
(* Pointers are small integers: 0 is NULL, a device pointer is the device  *)
(* id, a context pointer is the context id, and the address of a context's *)
(* trailing private[] payload is PrivAddr(c).                              *)
(***************************************************************************)
EXTENDS Integers, Sequences, FiniteSets, TLC

\* ------------------------------------------------------------------ bounds
MaxCtx == 1            \* video contexts that may be created
MaxRc == 2             \* cap on a reference count (guards of the Hold actions)
NBackends == 2         \* installed "decoder device" modules
MaxInit == 1           \* calls of decoder_Init on one decoder object

\* --------------------------------------------------------- program constants
NULL == 0
VLC_SUCCESS == 0
VLC_EGENERIC == -1
VLC_ENOMEM == -2
VLC_DECODER_DEVICE_NONE == 0
UNKNOWN_ES == 0
VIDEO_ES == 1
AUDIO_ES == 2

Threads == {"t1", "t2"}
\* One device object is modelled: devices share no state with one another.
DevIds == {1}
CtxIds == 1..MaxCtx
Backends == 1..NBackends
ErrCodes == {VLC_EGENERIC, VLC_ENOMEM}
CtxTypes == {1, 2}                 \* enum vlc_video_context_type values
PrivSizes == {0, 16}               \* private_size arguments
\* const struct vlc_video_context_operations *: NULL, a table whose destroy
\* is NULL, a table with a destroy hook
CtxOpsNoDestroy == 1
CtxOpsDestroy == 2
CtxOpsValues == {NULL, CtxOpsNoDestroy, CtxOpsDestroy}

VARIABLES
    dev,        \* dev[d]: struct vlc_decoder_device_priv, plus hook counters
    ctx,        \* ctx[c]: struct vlc_video_context, plus hook counters
    thr,        \* thr[t]: where thread t is in the call it is running
    refs,       \* the references callers own and have not released yet
    last,       \* what the step just taken returned to its caller, if anything
    fault,      \* "none", or how the process died: "assert" / "ub"
    asserts,    \* TRUE: assertions compiled in; FALSE: NDEBUG build
    dec,        \* the decoder_t fields the video helpers read
    decobj,     \* the decoder_t fields decoder_Init and decoder_Clean write
    dlast       \* the last decoder helper call: what it did and returned

vars == <<dev, ctx, thr, refs, last, fault, asserts, dec, decobj, dlast>>
devVars == <<dev, ctx, thr, refs, last>>
decVars == <<dec, decobj, dlast>>

\* -------------------------------------------------------------- vlc_atomic_rc
\* vlc_atomic_rc_init: the count becomes one.
vlc_atomic_rc_init == 1

\* vlc_atomic_rc_inc: one atomic increment.
vlc_atomic_rc_inc(rc) == rc + 1

\* Whether vlc_atomic_rc_inc aborts: in a build with assertions the counter
\* may assert that the count it found was not zero; whether it does is the
\* header's choice, so both outcomes are possible there.
vlc_atomic_rc_inc_aborts(rc) ==
    {FALSE} \cup (IF asserts /\ rc = 0 THEN {TRUE} ELSE {})

\* vlc_atomic_rc_dec: one atomic decrement; the second component is the
\* function's result, true exactly for the caller that saw the count at one.
vlc_atomic_rc_dec(rc) == <<rc - 1, rc = 1>>

\* ------------------------------------------------------------------- objects
\* vlc_object_create() returns zeroed storage: every field NULL/0. Beside
\* the fields of the object: the resources registered on it (res), the module
\* vlc_module_load selected, the number of probes it made, whether the count
\* was initialised, and how often the close hook (and of which backend),
\* vlc_objres_clear and vlc_object_delete ran on it.
DevZero ==
    [st |-> "alloc", sys |-> NULL, opaque |-> NULL,
     type |-> VLC_DECODER_DEVICE_NONE, ops |-> NULL, rc |-> 0, rcInit |-> FALSE,
     res |-> 0, module |-> 0, probes |-> 0, nClose |-> 0, closeBy |-> 0,
     nClear |-> 0, nDelete |-> 0]

DevNone == [DevZero EXCEPT !.st = "none"]

\* vlc_object_delete(): the storage is gone; only the hook counters, which
\* are not fields of the object, remain.
DevFreed(dv) ==
    [DevZero EXCEPT !.st = "freed", !.module = dv.module,
                    !.probes = dv.probes, !.nClose = dv.nClose,
                    !.closeBy = dv.closeBy, !.nClear = dv.nClear,
                    !.rcInit = dv.rcInit, !.nDelete = dv.nDelete + 1]

CtxNone ==
    [st |-> "none", rc |-> 0, device |-> NULL, ops |-> NULL, ptype |-> 0,
     psize |-> 0, nDestroy |-> 0, destroyArg |-> NULL, nFree |-> 0]

\* free(vctx): likewise.
CtxFreed(vc) ==
    [CtxNone EXCEPT !.st = "freed", !.nDestroy = vc.nDestroy,
                    !.destroyArg = vc.destroyArg, !.nFree = vc.nFree + 1]

\* An open routine that writes nothing and fails.
NoWrites ==
    [ret |-> VLC_EGENERIC, sys |-> FALSE, opaque |-> FALSE, type |-> FALSE,
     ops |-> FALSE, close |-> FALSE, nullops |-> FALSE, res |-> FALSE]

\* A thread: where it is, the device and the context it is working on, and
\* inside vlc_decoder_device_Create the name read from "dec-dev", the
\* candidates left, the probes made so far (the backend, what its open
\* routine and decoder_device_Open returned) and what the open routine of
\* the latest probe did.
ThrIdle ==
    [pc |-> "idle", d |-> 0, c |-> 0, name |-> NULL, cands |-> <<>>,
     tried |-> <<>>, w |-> NoWrites]

\* References handed to callers and not yet released: by a creation, a Hold
\* or a HoldDevice. A caller may use or release an object only through one.
RefsZero == [dev |-> [d \in DevIds |-> 0], ctx |-> [c \in CtxIds |-> 0]]

\* A call record: the operation, its pointer argument a, its second argument
\* b, and the value returned.
Call(op, a, b, ret) == [op |-> op, a |-> a, b |-> b, ret |-> ret]

NoCall == Call("none", 0, 0, 0)

PrivAddr(c) == c

\* const struct vlc_decoder_device_operations *: NULL, or one of the two
\* tables a backend b may install, with or without a close hook.
OpsTable(b, close) == 2 * b + (IF close THEN 1 ELSE 0)
OpsOwner(ops) == ops \div 2
\* Line 177 without the test: the close slot is called whatever it holds.
OpsCloseAssumed(ops) == TRUE
OpsHasClose(ops) == ops % 2 = 1

\* decoder_t: fmt_in.i_cat, whether cbs is set, and which hooks of
\* cbs->video are set.
DecZero == [cat |-> VIDEO_ES, cbs |-> FALSE, format_update |-> FALSE,
            buffer_new |-> FALSE, abort_pictures |-> FALSE]

\* What a call of a decoder helper did: how it ended ("returned", "abort" at
\* a failed assertion, "crash" or "wild" after a read through a null cbs),
\* the value returned, the hook it invoked ("none" if none) with the argument
\* and the result of that hook, the default pictures it allocated, and
\* whether it read a hook through a null cbs.
DecCall(op, arg, outcome, ret, hook, hookArg, hookRet, pictures, nullRead) ==
    [op |-> op, arg |-> arg, outcome |-> outcome, ret |-> ret, hook |-> hook,
     hookArg |-> hookArg, hookRet |-> hookRet, pictures |-> pictures,
     nullRead |-> nullRead]

NoDecCall == DecCall("none", 0, "none", 0, "none", 0, 0, 0, FALSE)

\* es_format_t: the category, the codec, the size of the extradata and who
\* owns the extradata buffer ("none": p_extra is NULL; "caller": the buffer
\* of the format handed to decoder_Init; "decoder": a buffer of the decoder).
es_format_Init(i_cat, i_codec) ==
    [i_cat |-> i_cat, i_codec |-> i_codec, i_extra |-> 0, extra |-> "none"]

\* es_format_Copy: a deep copy, the extradata in a buffer of its own.
es_format_Copy(src) ==
    [i_cat |-> src.i_cat, i_codec |-> src.i_codec, i_extra |-> src.i_extra,
     extra |-> IF src.i_extra > 0 THEN "decoder" ELSE "none"]

\* es_format_Clean: <<the descriptor afterwards, the buffers freed>>; the
\* descriptor is left initialised and owning nothing.
es_format_Clean(fmt) ==
    <<es_format_Init(UNKNOWN_ES, 0), IF fmt.extra = "decoder" THEN 1 ELSE 0>>

\* decoder_t, the fields of lines 39-66, with how often module_unneed,
\* vlc_meta_Delete, vlc_object_delete and decoder_Init ran on the decoder
\* and how many extradata buffers were freed.
DecObjZero ==
    [st |-> "live", p_module |-> NULL, pf_decode |-> NULL, pf_get_cc |-> NULL,
     pf_packetize |-> NULL, pf_flush |-> NULL, b_frame_drop_allowed |-> FALSE,
     i_extra_picture_buffers |-> 0, fmt_in |-> es_format_Init(VIDEO_ES, 0),
     fmt_out |-> es_format_Init(VIDEO_ES, 0), p_description |-> NULL,
     nUnneed |-> 0, nMetaDelete |-> 0, nExtraFree |-> 0, nDelete |-> 0,
     nInit |-> 0]

Init ==
    /\ dev = [d \in DevIds |-> DevNone]
    /\ ctx = [c \in CtxIds |-> CtxNone]
    /\ thr = [t \in Threads |-> ThrIdle]
    /\ refs = RefsZero
    /\ last = NoCall
    /\ fault = "none"
    /\ asserts = TRUE
    /\ dec = DecZero
    /\ decobj = DecObjZero
    /\ dlast = NoDecCall

Running == fault = "none"

\* assert(pred): aborts the process when assertions are compiled in and the
\* predicate is false; compiled out otherwise.
AssertFails(pred) == asserts /\ ~pred

\* ------------------------------------------------- vlc_decoder_device_Create
NoRepeat(s) == \A i, j \in 1..Len(s) : i # j => s[i] # s[j]

\* The priority-ordered lists of installed modules: no module twice.
Installed ==
    {s \in UNION {[1..n -> Backends] : n \in 0..NBackends} : NoRepeat(s)}

\* var_InheritString(window, "dec-dev"): no name, the name of an installed
\* module, or a name no module has.
DecDevNames == {NULL} \cup Backends \cup {NBackends + 1}

\* vlc_module_load(obj, cap, name, strict = true, probe, ...): the candidates
\* it will probe, in order. With a name and strict, only the module so named.
RECURSIVE Named(_, _)
Named(mods, name) ==
    IF mods = <<>> THEN <<>>
    ELSE IF Head(mods) = name THEN <<name>> \o Named(Tail(mods), name)
    ELSE Named(Tail(mods), name)

vlc_module_load_candidates(mods, name) ==
    IF name = NULL THEN mods ELSE Named(mods, name)

\* Line 148 passing strict = false: the named module first, then the others.
DeviceCandidatesNotStrict(mods, name) ==
    IF name = NULL THEN mods
    ELSE Named(mods, name) \o SelectSeq(mods, LAMBDA b : b # name)

\* Lines 147-149: the modules vlc_module_load will probe for this device,
\* called with the capability "decoder device", the name and strict = true.
DeviceCandidates(mods, name) == vlc_module_load_candidates(mods, name)

\* What one run of a backend's open routine does to the device: the fields it
\* writes, the resources it registers on the object, and its result. Nothing
\* is required of the routine: it may report success without setting its
\* kind tag or its operations table, and fail after setting them. What it
\* leaves in device->ops is its own table (ops), NULL (nullops), or what it
\* found there; only a table it installs can have a close hook. Storing NULL
\* in sys or opaque, or NONE in the kind tag, is writing nothing: each open
\* routine finds them so (lines 127-129).
OpenBehaviours ==
    {w \in [ret : {VLC_SUCCESS} \cup ErrCodes, sys : BOOLEAN, opaque : BOOLEAN,
            type : BOOLEAN, ops : BOOLEAN, close : BOOLEAN, nullops : BOOLEAN,
            res : BOOLEAN] :
        /\ ~w.ops => ~w.close
        /\ w.nullops => ~w.ops}

\* open(device, window) of backend b behaving as w.
BackendOpen(dv, b, w) ==
    [dv EXCEPT !.sys = IF w.sys THEN b ELSE @,
               !.opaque = IF w.opaque THEN b ELSE @,
               !.type = IF w.type THEN b ELSE @,
               !.ops = IF w.ops THEN OpsTable(b, w.close)
                       ELSE IF w.nullops THEN NULL ELSE @,
               !.res = IF w.res THEN @ + 1 ELSE @]

\* The failure branch without line 128: the kind tag survives.
OpenRollbackKeepsType(dv) ==
    [dv EXCEPT !.res = 0, !.nClear = @ + 1, !.sys = NULL, !.opaque = NULL]

\* Lines 126-129, the failure branch of decoder_device_Open.
OpenRollback(dv) ==
    [dv EXCEPT !.res = 0, !.nClear = @ + 1, !.sys = NULL,
               !.type = VLC_DECODER_DEVICE_NONE, !.opaque = NULL]

\* decoder_device_Open: <<device afterwards, value returned>>.
decoder_device_Open(dv, b, w) ==
    LET opened == BackendOpen(dv, b, w)
        ret == w.ret
    IN  IF ret # VLC_SUCCESS THEN <<OpenRollback(opened), ret>>
        ELSE <<opened, ret>>

\* Lines 142-149: allocate the object, read "dec-dev", enter vlc_module_load.
CreateBegin(t, d) ==
    /\ Running
    /\ thr[t].pc = "idle"
    /\ dev[d].st = "none"
    /\ \E mods \in Installed, name \in DecDevNames :
        /\ dev' = [dev EXCEPT ![d] = DevZero]
        /\ thr' = [thr EXCEPT ![t].pc = "cr_load", ![t].d = d,
                              ![t].name = name,
                              ![t].cands = DeviceCandidates(mods, name),
                              ![t].tried = <<>>, ![t].w = NoWrites]
    /\ last' = NoCall
    /\ UNCHANGED <<ctx, refs, fault, asserts, decVars>>

\* Lines 143-145: vlc_object_create failed.
CreateNoMem(t) ==
    /\ Running
    /\ thr[t].pc = "idle"
    /\ \E d \in DevIds : dev[d].st = "none"
    /\ last' = Call("DevCreate", NULL, 0, NULL)
    /\ UNCHANGED <<dev, ctx, thr, refs, fault, asserts, decVars>>

\* One probe of vlc_module_load: decoder_device_Open on the next candidate,
\* whose open routine behaves as one of W.
OpenAttempt(t, W) ==
    /\ Running
    /\ thr[t].pc = "cr_load"
    /\ thr[t].cands # <<>>
    /\ LET d == thr[t].d
           b == Head(thr[t].cands)
       IN \E w \in W :
           LET r == decoder_device_Open(dev[d], b, w)
               ok == r[2] = VLC_SUCCESS
               log == Append(thr[t].tried, [b |-> b, ret |-> w.ret, wret |-> r[2]])
           IN /\ dev' = [dev EXCEPT ![d] =
                            [r[1] EXCEPT !.probes = @ + 1,
                                         !.module = IF ok THEN b ELSE @]]
              /\ thr' = [thr EXCEPT ![t].tried = log, ![t].w = w,
                                    ![t].cands = IF ok THEN <<>> ELSE Tail(@),
                                    ![t].pc = IF ok \/ Tail(thr[t].cands) = <<>>
                                              THEN "cr_loaded" ELSE "cr_load"]
              /\ fault' = IF w.ret = VLC_SUCCESS
                             /\ AssertFails(r[1].type # VLC_DECODER_DEVICE_NONE)
                          THEN "assert" ELSE fault
    /\ last' = NoCall
    /\ UNCHANGED <<ctx, refs, asserts, decVars>>

\* vlc_module_load found no candidate at all.
LoadNone(t) ==
    /\ Running
    /\ thr[t].pc = "cr_load"
    /\ thr[t].cands = <<>>
    /\ thr' = [thr EXCEPT ![t].pc = "cr_loaded"]
    /\ last' = NoCall
    /\ UNCHANGED <<dev, ctx, refs, fault, asserts, decVars>>

\* Line 151 with the test left out.
ModuleAssumed(dv) == TRUE

\* Line 151: whether vlc_module_load returned a module.
ModuleLoaded(dv) == dv.module # NULL

\* Lines 151-155: no module was selected.
CreateFail(t) ==
    /\ Running
    /\ thr[t].pc = "cr_loaded"
    /\ ~ModuleLoaded(dev[thr[t].d])
    /\ dev' = [dev EXCEPT ![thr[t].d] = DevFreed(@)]
    /\ thr' = [thr EXCEPT ![t].pc = "idle", ![t].d = 0, ![t].name = NULL,
                          ![t].tried = <<>>, ![t].w = NoWrites]
    /\ last' = Call("DevCreate", thr[t].d, 0, NULL)
    /\ UNCHANGED <<ctx, refs, fault, asserts, decVars>>

\* Lines 156-158: a module was selected.
CreateDone(t) ==
    /\ Running
    /\ thr[t].pc = "cr_loaded"
    /\ ModuleLoaded(dev[thr[t].d])
    /\ LET d == thr[t].d
       IN IF AssertFails(dev[d].ops # NULL)
          THEN /\ fault' = "assert"
               /\ last' = NoCall
               /\ UNCHANGED <<dev, thr, refs>>
          ELSE /\ dev' = [dev EXCEPT ![d].rc = vlc_atomic_rc_init,
                                     ![d].rcInit = TRUE, ![d].st = "live"]
               /\ thr' = [thr EXCEPT ![t].pc = "idle", ![t].d = 0,
                                     ![t].name = NULL,
                                     ![t].tried = <<>>, ![t].w = NoWrites]
               /\ refs' = [refs EXCEPT !.dev[d] = @ + 1]
               /\ last' = Call("DevCreate", d, 0, d)
               /\ UNCHANGED fault
    /\ UNCHANGED <<ctx, asserts, decVars>>

\* ------------------------------------------- vlc_decoder_device_Hold/Release
\* Line 166 left out: the handle is returned without counting it.
DeviceHoldNoCount(dv) == dv

\* Line 166.
vlc_decoder_device_Hold(dv) == [dv EXCEPT !.rc = vlc_atomic_rc_inc(@)]

\* A caller that owns a reference takes another one.
DevHold(t, d) ==
    /\ Running
    /\ thr[t].pc = "idle"
    /\ refs.dev[d] > 0
    /\ dev[d].rc < MaxRc
    /\ IF dev[d].st # "live"
       THEN /\ fault' = "ub"
            /\ last' = NoCall
            /\ UNCHANGED <<dev, refs>>
       ELSE /\ dev' = [dev EXCEPT ![d] = vlc_decoder_device_Hold(@)]
            /\ refs' = [refs EXCEPT !.dev[d] = @ + 1]
            /\ last' = Call("DevHold", d, 0, d)
            /\ UNCHANGED fault
    /\ UNCHANGED <<ctx, thr, asserts, decVars>>

\* Line 175 with the result of vlc_atomic_rc_dec ignored: every Release tears
\* the device down.
DeviceDecEager(dv) == <<[dv EXCEPT !.rc = vlc_atomic_rc_dec(@)[1]], TRUE>>

\* Line 175: the decrement, and whether this caller tears the device down.
DeviceDec(dv) ==
    LET r == vlc_atomic_rc_dec(dv.rc)
    IN  <<[dv EXCEPT !.rc = r[1]], r[2]>>

\* vlc_decoder_device_Release of a reference the caller owns, up to the test
\* of line 175.
DevRelease(t, d) ==
    /\ Running
    /\ thr[t].pc = "idle"
    /\ refs.dev[d] > 0
    /\ IF dev[d].st # "live"
       THEN /\ fault' = "ub"
            /\ UNCHANGED <<dev, thr, refs>>
       ELSE LET r == DeviceDec(dev[d])
            IN /\ dev' = [dev EXCEPT ![d] = r[1]]
               /\ refs' = [refs EXCEPT !.dev[d] = @ - 1]
               /\ thr' = [thr EXCEPT ![t].pc = IF r[2] THEN "dev_close" ELSE "idle",
                                     ![t].d = IF r[2] THEN d ELSE 0]
               /\ UNCHANGED fault
    /\ last' = NoCall
    /\ UNCHANGED <<ctx, asserts, decVars>>

\* Lines 177-178: the backend's close hook, if its table has one.
DevClose(t) ==
    /\ Running
    /\ thr[t].pc = "dev_close"
    /\ LET d == thr[t].d
       IN IF dev[d].st # "live" \/ dev[d].ops = NULL
          THEN /\ fault' = "ub"
               /\ UNCHANGED <<dev, thr>>
          ELSE /\ dev' = [dev EXCEPT
                           ![d].nClose = IF OpsHasClose(dev[d].ops) THEN @ + 1 ELSE @,
                           ![d].closeBy = IF OpsHasClose(dev[d].ops)
                                          THEN OpsOwner(dev[d].ops) ELSE @]
               /\ thr' = [thr EXCEPT ![t].pc = "dev_clear"]
               /\ UNCHANGED fault
    /\ last' = NoCall
    /\ UNCHANGED <<ctx, refs, asserts, decVars>>

\* Line 179: vlc_objres_clear.
DevClear(t) ==
    /\ Running
    /\ thr[t].pc = "dev_clear"
    /\ IF dev[thr[t].d].st # "live"
       THEN /\ fault' = "ub"
            /\ UNCHANGED <<dev, thr>>
       ELSE /\ dev' = [dev EXCEPT ![thr[t].d].res = 0, ![thr[t].d].nClear = @ + 1]
            /\ thr' = [thr EXCEPT ![t].pc = "dev_delete"]
            /\ UNCHANGED fault
    /\ last' = NoCall
    /\ UNCHANGED <<ctx, refs, asserts, decVars>>

\* Line 180: vlc_object_delete; then back to the caller, which is
\* vlc_video_context_Release when the thread is tearing a context down.
DevDelete(t) ==
    /\ Running
    /\ thr[t].pc = "dev_delete"
    /\ IF dev[thr[t].d].st # "live"
       THEN /\ fault' = "ub"
            /\ UNCHANGED <<dev, thr>>
       ELSE /\ dev' = [dev EXCEPT ![thr[t].d] = DevFreed(@)]
            /\ thr' = [thr EXCEPT ![t].pc = IF thr[t].c # 0 THEN "ctx_destroy"
                                            ELSE "idle",
                                  ![t].d = 0]
            /\ UNCHANGED fault
    /\ last' = NoCall
    /\ UNCHANGED <<ctx, refs, asserts, decVars>>

\* ------------------------------------------------------------- video context
\* Lines 204-210 on fresh storage: the fields of the new context.
NewContext(device, private_type, private_size, ops) ==
    [CtxNone EXCEPT !.st = "live", !.rc = vlc_atomic_rc_init,
                    !.ptype = private_type, !.psize = private_size,
                    !.device = device, !.ops = ops]

\* Lines 208-209 left out: the context borrows the caller's reference.
ContextBorrowsDevice(dv) == dv

\* Lines 208-209: the context takes its own reference on the device.
ContextTakesDevice(dv) == vlc_decoder_device_Hold(dv)

\* vlc_video_context_Create by a caller that owns a reference on the device
\* it passes (or passes none), with a tag of types and a size of sizes.
CtxCreate(t, c, types, sizes) ==
    /\ Running
    /\ thr[t].pc = "idle"
    /\ ctx[c].st = "none"
    /\ \A e \in CtxIds : e < c => ctx[e].st # "none"
    /\ \E device \in {NULL} \cup {d \in DevIds : refs.dev[d] > 0},
          private_type \in types, private_size \in sizes,
          ops \in CtxOpsValues :
        /\ device # NULL => dev[device].rc < MaxRc
        /\ IF device # NULL /\ dev[device].st # "live"
           THEN /\ fault' = "ub"
                /\ last' = NoCall
                /\ UNCHANGED <<dev, ctx, refs>>
           ELSE /\ ctx' = [ctx EXCEPT ![c] =
                             NewContext(device, private_type, private_size, ops)]
                /\ dev' = IF ctx'[c].device # NULL
                          THEN [dev EXCEPT ![ctx'[c].device] =
                                               ContextTakesDevice(@)]
                          ELSE dev
                /\ refs' = [refs EXCEPT !.ctx[c] = @ + 1]
                /\ last' = Call("CtxCreate", device, private_type, c)
                /\ UNCHANGED fault
    /\ UNCHANGED <<thr, asserts, decVars>>

\* Lines 201-203: malloc failed.
CtxCreateNoMem(t) ==
    /\ Running
    /\ thr[t].pc = "idle"
    /\ \E c \in CtxIds : ctx[c].st = "none"
    /\ last' = Call("CtxCreate", NULL, 0, NULL)
    /\ UNCHANGED <<dev, ctx, thr, refs, fault, asserts, decVars>>

\* vlc_video_context_GetPrivate answering "absent" to every request.
GetPrivateAbsent(vctx, type) == NULL

\* Line 216 without the comparison of the tags.
GetPrivateAnyType(vctx, type) == IF vctx # NULL THEN PrivAddr(vctx) ELSE NULL

\* vlc_video_context_GetPrivate: the value returned.
vlc_video_context_GetPrivate(vctx, type) ==
    IF vctx # NULL /\ ctx[vctx].ptype = type THEN PrivAddr(vctx) ELSE NULL

\* A call of vlc_video_context_GetPrivate with a null context or one the
\* caller owns a reference on, and any tag.
GetPrivate(t) ==
    /\ Running
    /\ thr[t].pc = "idle"
    /\ \E vctx \in {NULL} \cup {c \in CtxIds : refs.ctx[c] > 0},
          type \in CtxTypes \cup {0} :
        IF vctx # NULL /\ ctx[vctx].st # "live"
        THEN /\ fault' = "ub"
             /\ last' = NoCall
        ELSE /\ last' = Call("GetPrivate", vctx, type,
                             vlc_video_context_GetPrivate(vctx, type))
             /\ UNCHANGED fault
    /\ UNCHANGED <<dev, ctx, thr, refs, asserts, decVars>>

\* vlc_video_context_GetType answering with no tag at all.
GetTypeUntagged(vctx) == 0

\* vlc_video_context_GetType: line 223, the tag the context stores.
vlc_video_context_GetType(vctx) == ctx[vctx].ptype

\* A call of vlc_video_context_GetType on a context the caller owns a
\* reference on.
GetType(t) ==
    /\ Running
    /\ thr[t].pc = "idle"
    /\ \E vctx \in {c \in CtxIds : refs.ctx[c] > 0} :
        IF ctx[vctx].st # "live"
        THEN /\ fault' = "ub"
             /\ last' = NoCall
        ELSE /\ last' = Call("GetType", vctx, 0, vlc_video_context_GetType(vctx))
             /\ UNCHANGED fault
    /\ UNCHANGED <<dev, ctx, thr, refs, asserts, decVars>>

\* Line 228.
vlc_video_context_Hold(vc) == [vc EXCEPT !.rc = vlc_atomic_rc_inc(@)]

CtxHold(t, c) ==
    /\ Running
    /\ thr[t].pc = "idle"
    /\ refs.ctx[c] > 0
    /\ ctx[c].rc < MaxRc
    /\ IF ctx[c].st # "live"
       THEN /\ fault' = "ub"
            /\ last' = NoCall
            /\ UNCHANGED <<ctx, refs>>
       ELSE /\ ctx' = [ctx EXCEPT ![c] = vlc_video_context_Hold(@)]
            /\ refs' = [refs EXCEPT !.ctx[c] = @ + 1]
            /\ last' = Call("CtxHold", c, 0, c)
            /\ UNCHANGED fault
    /\ UNCHANGED <<dev, thr, asserts, decVars>>

\* Line 234: the decrement, and whether this caller tears the context down.
ContextDec(vc) ==
    LET r == vlc_atomic_rc_dec(vc.rc)
    IN  <<[vc EXCEPT !.rc = r[1]], r[2]>>

\* vlc_video_context_Release of a reference the caller owns, up to the test
\* of line 234.
CtxRelease(t, c) ==
    /\ Running
    /\ thr[t].pc = "idle"
    /\ refs.ctx[c] > 0
    /\ IF ctx[c].st # "live"
       THEN /\ fault' = "ub"
            /\ UNCHANGED <<ctx, thr, refs>>
       ELSE LET r == ContextDec(ctx[c])
            IN /\ ctx' = [ctx EXCEPT ![c] = r[1]]
               /\ refs' = [refs EXCEPT !.ctx[c] = @ - 1]
               /\ thr' = [thr EXCEPT ![t].pc = IF r[2] THEN "ctx_reldev" ELSE "idle",
                                     ![t].c = IF r[2] THEN c ELSE 0]
               /\ UNCHANGED fault
    /\ last' = NoCall
    /\ UNCHANGED <<dev, asserts, decVars>>

\* Lines 236-237: the context gives up its reference on its device; this is
\* vlc_decoder_device_Release up to its test of line 175.
CtxReleaseDevice(t) ==
    /\ Running
    /\ thr[t].pc = "ctx_reldev"
    /\ LET d == ctx[thr[t].c].device
       IN IF d = NULL
          THEN /\ thr' = [thr EXCEPT ![t].pc = "ctx_destroy"]
               /\ UNCHANGED <<dev, fault>>
          ELSE IF dev[d].st # "live"
          THEN /\ fault' = "ub"
               /\ UNCHANGED <<dev, thr>>
          ELSE LET r == DeviceDec(dev[d])
               IN /\ dev' = [dev EXCEPT ![d] = r[1]]
                  /\ thr' = [thr EXCEPT ![t].pc = IF r[2] THEN "dev_close"
                                                  ELSE "ctx_destroy",
                                        ![t].d = IF r[2] THEN d ELSE 0]
                  /\ UNCHANGED fault
    /\ last' = NoCall
    /\ UNCHANGED <<ctx, refs, asserts, decVars>>

\* Lines 238-239: the destroy hook, given the private payload.
CtxDestroy(t) ==
    /\ Running
    /\ thr[t].pc = "ctx_destroy"
    /\ LET c == thr[t].c
           hook == ctx[c].ops # NULL /\ ctx[c].ops = CtxOpsDestroy
       IN ctx' = [ctx EXCEPT
                    ![c].nDestroy = IF hook THEN @ + 1 ELSE @,
                    ![c].destroyArg =
                        IF hook THEN vlc_video_context_GetPrivate(c, ctx[c].ptype)
                        ELSE @]
    /\ thr' = [thr EXCEPT ![t].pc = "ctx_free"]
    /\ last' = NoCall
    /\ UNCHANGED <<dev, refs, fault, asserts, decVars>>

\* Line 240: free(vctx).
CtxFree(t) ==
    /\ Running
    /\ thr[t].pc = "ctx_free"
    /\ ctx' = [ctx EXCEPT ![thr[t].c] = CtxFreed(@)]
    /\ thr' = [thr EXCEPT ![t].pc = "idle", ![t].c = 0]
    /\ last' = NoCall
    /\ UNCHANGED <<dev, refs, fault, asserts, decVars>>

\* Line 248 returning vctx->device without the Hold.
HeldDeviceNoHold(dv) == dv

\* Line 248: the reference HoldDevice returns.
HeldDevice(dv) == vlc_decoder_device_Hold(dv)

\* vlc_video_context_HoldDevice by a caller that owns a reference on the
\* context.
HoldDevice(t, c) ==
    /\ Running
    /\ thr[t].pc = "idle"
    /\ refs.ctx[c] > 0
    /\ ctx[c].device # NULL => dev[ctx[c].device].rc < MaxRc
    /\ IF ctx[c].st # "live" \/ (ctx[c].device # NULL
                                 /\ dev[ctx[c].device].st # "live")
       THEN /\ fault' = "ub"
            /\ last' = NoCall
            /\ UNCHANGED <<dev, refs>>
       ELSE IF ctx[c].device = NULL
       THEN /\ last' = Call("HoldDevice", c, 0, NULL)
            /\ UNCHANGED <<dev, refs, fault>>
       ELSE LET d == ctx[c].device
            IN /\ dev' = [dev EXCEPT ![d] = HeldDevice(@)]
               /\ refs' = [refs EXCEPT !.dev[d] = @ + 1]
               /\ last' = Call("HoldDevice", c, 0, d)
               /\ UNCHANGED fault
    /\ UNCHANGED <<ctx, thr, asserts, decVars>>

\* ------------------------------------------------------------ decoder helpers
\* The decoders the helpers are called on: every category, with or without a
\* callback table, every choice of hooks in a table.
DecStates ==
    {x \in [cat : {UNKNOWN_ES, VIDEO_ES, AUDIO_ES}, cbs : BOOLEAN,
            format_update : BOOLEAN, buffer_new : BOOLEAN,
            abort_pictures : BOOLEAN] :
        ~x.cbs => ~x.format_update /\ ~x.buffer_new /\ ~x.abort_pictures}

\* The values the owner's format_update hook may return.
FormatUpdateResults == {VLC_SUCCESS, VLC_EGENERIC}
\* picture_NewFromFormat and the owner's buffer_new hook: a picture, or NULL.
DefaultPicture == 1
OwnerPicture == 2

\* The assertion that opens each video helper (lines 86, 96, 104).
VideoAsserted(x) == x.cat = VIDEO_ES /\ x.cbs

\* decoder_UpdateVideoOutput with the category test of line 87 left out.
UpdateVideoOutputAnyCategory(x, vctx_out, hookRet) ==
    IF AssertFails(VideoAsserted(x))
    THEN DecCall("UpdateVideoOutput", vctx_out, "abort", 0, "none", 0, 0, 0, FALSE)
    ELSE IF ~x.cbs \/ ~x.format_update
    THEN DecCall("UpdateVideoOutput", vctx_out, "returned", -1, "none", 0, 0, 0,
                 FALSE)
    ELSE DecCall("UpdateVideoOutput", vctx_out, "returned", hookRet,
                 "format_update", vctx_out, hookRet, 0, FALSE)

\* decoder_UpdateVideoOutput on decoder x: the record of the call.
decoder_UpdateVideoOutput(x, vctx_out, hookRet) ==
    IF AssertFails(VideoAsserted(x))
    THEN DecCall("UpdateVideoOutput", vctx_out, "abort", 0, "none", 0, 0, 0, FALSE)
    ELSE IF x.cat # VIDEO_ES \/ ~x.cbs \/ ~x.format_update
    THEN DecCall("UpdateVideoOutput", vctx_out, "returned", -1, "none", 0, 0, 0,
                 FALSE)
    ELSE DecCall("UpdateVideoOutput", vctx_out, "returned", hookRet,
                 "format_update", vctx_out, hookRet, 0, FALSE)

\* Line 81 passing a context of its own instead of NULL.
UpdateVideoFormatOwnContext(x, hookRet) ==
    [decoder_UpdateVideoOutput(x, 1, hookRet) EXCEPT !.op = "UpdateVideoFormat"]

\* decoder_UpdateVideoFormat: line 81.
decoder_UpdateVideoFormat(x, hookRet) ==
    [decoder_UpdateVideoOutput(x, NULL, hookRet) EXCEPT !.op = "UpdateVideoFormat"]

\* A read of a hook through a null cbs: the build may fault, find the slot
\* empty, or find garbage in it and jump there.
NullReadOutcomes == {"crash", "empty", "wild"}

\* decoder_NewPicture without the test of line 97: the owner's hook is never
\* asked.
NewPictureAlwaysDefault(x, u, pic) ==
    IF AssertFails(VideoAsserted(x))
    THEN DecCall("NewPicture", 0, "abort", 0, "none", 0, 0, 0, FALSE)
    ELSE DecCall("NewPicture", 0, "returned", pic * DefaultPicture, "none", 0, 0,
                 1, FALSE)

\* decoder_NewPicture on decoder x; u is what a read through a null cbs does,
\* pic what the allocation called yields.
decoder_NewPicture(x, u, pic) ==
    IF AssertFails(VideoAsserted(x))
    THEN DecCall("NewPicture", 0, "abort", 0, "none", 0, 0, 0, FALSE)
    ELSE IF ~x.cbs
    THEN IF u = "empty"
         THEN DecCall("NewPicture", 0, "returned", pic * DefaultPicture, "none",
                      0, 0, 1, TRUE)
         ELSE DecCall("NewPicture", 0, u, 0, "none", 0, 0, 0, TRUE)
    ELSE IF ~x.buffer_new
    THEN DecCall("NewPicture", 0, "returned", pic * DefaultPicture, "none", 0, 0,
                 1, FALSE)
    ELSE DecCall("NewPicture", 0, "returned", pic * OwnerPicture, "buffer_new",
                 0, pic * OwnerPicture, 0, FALSE)

\* decoder_AbortPictures on decoder x.
decoder_AbortPictures(x, abort, u) ==
    IF AssertFails(VideoAsserted(x))
    THEN DecCall("AbortPictures", abort, "abort", 0, "none", 0, 0, 0, FALSE)
    ELSE IF ~x.cbs
    THEN IF u = "empty"
         THEN DecCall("AbortPictures", abort, "returned", 0, "none", 0, 0, 0, TRUE)
         ELSE DecCall("AbortPictures", abort, u, 0, "none", 0, 0, 0, TRUE)
    ELSE IF x.abort_pictures
    THEN DecCall("AbortPictures", abort, "returned", 0, "abort_pictures", abort,
                 0, 0, FALSE)
    ELSE DecCall("AbortPictures", abort, "returned", 0, "none", 0, 0, 0, FALSE)

\* A call that did not return ended the process.
FaultOf(call) ==
    IF call.outcome = "abort" THEN "assert"
    ELSE IF call.outcome \in {"crash", "wild"} THEN "ub"
    ELSE "none"

UpdateVideoOutput ==
    /\ Running
    /\ \E vctx_out \in {NULL} \cup CtxIds, hookRet \in FormatUpdateResults :
        dlast' = decoder_UpdateVideoOutput(dec, vctx_out, hookRet)
    /\ fault' = FaultOf(dlast')
    /\ UNCHANGED <<devVars, asserts, dec, decobj>>

UpdateVideoFormat ==
    /\ Running
    /\ \E hookRet \in FormatUpdateResults :
        dlast' = decoder_UpdateVideoFormat(dec, hookRet)
    /\ fault' = FaultOf(dlast')
    /\ UNCHANGED <<devVars, asserts, dec, decobj>>

NewPicture ==
    /\ Running
    /\ \E u \in NullReadOutcomes, pic \in {0, 1} :
        dlast' = decoder_NewPicture(dec, u, pic)
    /\ fault' = FaultOf(dlast')
    /\ UNCHANGED <<devVars, asserts, dec, decobj>>

AbortPictures ==
    /\ Running
    /\ \E abort \in {0, 1}, u \in NullReadOutcomes :
        dlast' = decoder_AbortPictures(dec, abort, u)
    /\ fault' = FaultOf(dlast')
    /\ UNCHANGED <<devVars, asserts, dec, decobj>>

\* ---------------------------------------------------------- decoder lifecycle
\* The formats a caller hands to decoder_Init, and the descriptors a decoder
\* may hold: extradata, if any, in a buffer of the owner.
CallerFormats ==
    {f \in [i_cat : {VIDEO_ES, AUDIO_ES}, i_codec : {0, 1}, i_extra : {0, 1},
            extra : {"none", "caller"}] : f.extra = "caller" <=> f.i_extra > 0}

DecoderFormats == {es_format_Copy(f) : f \in CallerFormats}

\* The decoders decoder_Init, decoder_Clean and decoder_Destroy are called
\* on: any module, slots, policy, descriptors and description.
DecObjStates ==
    {x \in [st : {"live"}, p_module : {NULL, 1}, pf_decode : {NULL, 1},
            pf_get_cc : {NULL, 1}, pf_packetize : {NULL, 1},
            pf_flush : {NULL, 1}, b_frame_drop_allowed : BOOLEAN,
            i_extra_picture_buffers : {0, 1}, fmt_in : DecoderFormats,
            fmt_out : DecoderFormats, p_description : {NULL, 1},
            nUnneed : {0}, nMetaDelete : {0}, nExtraFree : {0}, nDelete : {0},
            nInit : {0}] :
        /\ x.p_module = NULL => x.pf_decode = NULL /\ x.pf_packetize = NULL
        /\ x.pf_decode = NULL => x.pf_get_cc = NULL /\ x.pf_flush = NULL}

\* decoder_Init without line 46: the module slot keeps what it held.
decoder_InitKeepsModule(x, p_fmt) ==
    [x EXCEPT !.i_extra_picture_buffers = 0, !.b_frame_drop_allowed = FALSE,
              !.pf_decode = NULL, !.pf_get_cc = NULL, !.pf_packetize = NULL,
              !.pf_flush = NULL, !.nInit = @ + 1,
              !.fmt_in = es_format_Copy(p_fmt),
              !.fmt_out = es_format_Init(p_fmt.i_cat, 0)]

\* decoder_Init: lines 39-49.
decoder_Init(x, p_fmt) ==
    [x EXCEPT !.i_extra_picture_buffers = 0, !.b_frame_drop_allowed = FALSE,
              !.pf_decode = NULL, !.pf_get_cc = NULL, !.pf_packetize = NULL,
              !.pf_flush = NULL, !.p_module = NULL, !.nInit = @ + 1,
              !.fmt_in = es_format_Copy(p_fmt),
              !.fmt_out = es_format_Init(p_fmt.i_cat, 0)]

\* decoder_Clean without line 57: the module slot is not cleared.
decoder_CleanKeepsModule(x) ==
    [x EXCEPT !.nUnneed = IF x.p_module # NULL THEN @ + 1 ELSE @,
              !.fmt_in = es_format_Clean(x.fmt_in)[1],
              !.fmt_out = es_format_Clean(x.fmt_out)[1],
              !.nExtraFree = @ + es_format_Clean(x.fmt_in)[2]
                               + es_format_Clean(x.fmt_out)[2],
              !.nMetaDelete = IF x.p_description # NULL THEN @ + 1 ELSE @,
              !.p_description = NULL]

\* decoder_Clean: lines 54-67.
decoder_Clean(x) ==
    [x EXCEPT !.nUnneed = IF x.p_module # NULL THEN @ + 1 ELSE @,
              !.p_module = NULL,
              !.fmt_in = es_format_Clean(x.fmt_in)[1],
              !.fmt_out = es_format_Clean(x.fmt_out)[1],
              !.nExtraFree = @ + es_format_Clean(x.fmt_in)[2]
                               + es_format_Clean(x.fmt_out)[2],
              !.nMetaDelete = IF x.p_description # NULL THEN @ + 1 ELSE @,
              !.p_description = NULL]

\* decoder_Destroy: lines 72-76; p_dec is NULL or the decoder.
decoder_Destroy(x, p_dec) ==
    IF p_dec # NULL
    THEN [decoder_Clean(x) EXCEPT !.st = "deleted", !.nDelete = @ + 1]
    ELSE x

DecInit ==
    /\ Running
    /\ decobj.st = "live"
    /\ decobj.nInit < MaxInit
    /\ \E p_fmt \in CallerFormats :
        /\ decobj' = decoder_Init(decobj, p_fmt)
        /\ dlast' = DecCall("Init", p_fmt, "returned", 0, "none", 0, 0, 0, FALSE)
    /\ dec' = [dec EXCEPT !.cat = decobj'.fmt_in.i_cat]
    /\ UNCHANGED <<devVars, fault, asserts>>

DecClean ==
    /\ Running
    /\ decobj.st = "live"
    /\ decobj' = decoder_Clean(decobj)
    /\ dec' = [dec EXCEPT !.cat = decobj'.fmt_in.i_cat]
    /\ dlast' = DecCall("Clean", 0, "returned", 0, "none", 0, 0, 0, FALSE)
    /\ UNCHANGED <<devVars, fault, asserts>>

DecDestroy ==
    /\ Running
    /\ decobj.st = "live"
    /\ \E p_dec \in {NULL, 1} :
        /\ decobj' = decoder_Destroy(decobj, p_dec)
        /\ dlast' = DecCall("Destroy", p_dec, "returned", 0, "none", 0, 0, 0,
                            FALSE)
    /\ dec' = [dec EXCEPT !.cat = decobj'.fmt_in.i_cat]
    /\ UNCHANGED <<devVars, fault, asserts>>

\* ------------------------------------------------------------ specification
\* The reference-counting specification: two threads create, hold and release
\* the device and the contexts. What a backend keeps in sys and opaque, the
\* resources it registers, what it leaves behind when it fails, and the tag
\* and size of a context play no part in reference counting and are drawn
\* from the smallest sets here; SpecOpen and SpecCtx draw them in full. The
\* backends here are those that set their kind tag and their table when they
\* succeed, and nothing when they fail.
PlainOpens ==
    {w \in OpenBehaviours :
        /\ ~w.sys /\ ~w.opaque /\ ~w.res /\ ~w.nullops /\ w.ret # VLC_ENOMEM
        /\ w.ret # VLC_SUCCESS => ~w.type /\ ~w.ops
        /\ w.ret = VLC_SUCCESS => w.type /\ w.ops}
PlainTypes == {1}
PlainSizes == {0}

Next ==
    \/ \E t \in Threads, d \in DevIds : CreateBegin(t, d)
    \/ \E t \in Threads : CreateNoMem(t)
    \/ \E t \in Threads : OpenAttempt(t, PlainOpens)
    \/ \E t \in Threads : LoadNone(t)
    \/ \E t \in Threads : CreateFail(t)
    \/ \E t \in Threads : CreateDone(t)
    \/ \E t \in Threads, d \in DevIds : DevHold(t, d)
    \/ \E t \in Threads, d \in DevIds : DevRelease(t, d)
    \/ \E t \in Threads : DevClose(t)
    \/ \E t \in Threads : DevClear(t)
    \/ \E t \in Threads : DevDelete(t)
    \/ \E t \in Threads, c \in CtxIds : CtxCreate(t, c, PlainTypes, PlainSizes)
    \/ \E t \in Threads : CtxCreateNoMem(t)
    \/ \E t \in Threads, c \in CtxIds : CtxHold(t, c)
    \/ \E t \in Threads, c \in CtxIds : CtxRelease(t, c)
    \/ \E t \in Threads : CtxReleaseDevice(t)
    \/ \E t \in Threads : CtxDestroy(t)
    \/ \E t \in Threads : CtxFree(t)
    \/ \E t \in Threads, c \in CtxIds : HoldDevice(t, c)

Spec == Init /\ [][Next]_vars

\* The open protocol: one thread creates the device, with every behaviour of
\* the backends' open routines, and releases it; in a build with assertions
\* and in one without.
Opener == "t1"

InitOpen ==
    /\ dev = [d \in DevIds |-> DevNone]
    /\ ctx = [c \in CtxIds |-> CtxNone]
    /\ thr = [t \in Threads |-> ThrIdle]
    /\ refs = RefsZero
    /\ last = NoCall
    /\ fault = "none"
    /\ asserts \in BOOLEAN
    /\ dec = DecZero
    /\ decobj = DecObjZero
    /\ dlast = NoDecCall

NextOpen ==
    \/ \E d \in DevIds : CreateBegin(Opener, d)
    \/ CreateNoMem(Opener)
    \/ OpenAttempt(Opener, OpenBehaviours)
    \/ LoadNone(Opener)
    \/ CreateFail(Opener)
    \/ CreateDone(Opener)
    \/ \E d \in DevIds : DevHold(Opener, d)
    \/ \E d \in DevIds : DevRelease(Opener, d)
    \/ DevClose(Opener)
    \/ DevClear(Opener)
    \/ DevDelete(Opener)

SpecOpen == InitOpen /\ [][NextOpen]_vars

\* The accessors of a video context: contexts of every tag and size, created
\* without a device, read through GetPrivate by two threads.
NextCtx ==
    \/ \E t \in Threads, c \in CtxIds : CtxCreate(t, c, CtxTypes, PrivSizes)
    \/ \E t \in Threads : CtxCreateNoMem(t)
    \/ \E t \in Threads : GetPrivate(t)
    \/ \E t \in Threads, c \in CtxIds : CtxHold(t, c)
    \/ \E t \in Threads, c \in CtxIds : CtxRelease(t, c)
    \/ \E t \in Threads : CtxReleaseDevice(t)
    \/ \E t \in Threads : CtxDestroy(t)
    \/ \E t \in Threads : CtxFree(t)
    \/ \E t \in Threads, c \in CtxIds : HoldDevice(t, c)

SpecCtx == Init /\ [][NextCtx]_vars

\* The decoder helpers, on every decoder of DecStates, in a build with
\* assertions and in one without.
InitDec ==
    /\ dev = [d \in DevIds |-> DevNone]
    /\ ctx = [c \in CtxIds |-> CtxNone]
    /\ thr = [t \in Threads |-> ThrIdle]
    /\ refs = RefsZero
    /\ last = NoCall
    /\ fault = "none"
    /\ asserts \in BOOLEAN
    /\ dec \in DecStates
    /\ decobj = DecObjZero
    /\ dlast = NoDecCall

NextDec ==
    \/ UpdateVideoOutput
    \/ UpdateVideoFormat
    \/ NewPicture
    \/ AbortPictures

SpecDec == InitDec /\ [][NextDec]_vars

\* A probe whose open routine takes a reference on the device it is opening,
\* by vlc_decoder_device_Hold, keeps it, and reports success. The object is
\* zeroed storage whose count line 157 has not initialised yet: the
\* increment finds a count of zero, and a counter that asserts on it aborts
\* inside the open routine, after the increment.
OpenAttemptHold(t, W) ==
    /\ Running
    /\ thr[t].pc = "cr_load"
    /\ thr[t].cands # <<>>
    /\ LET d == thr[t].d
           b == Head(thr[t].cands)
       IN \E aborts \in vlc_atomic_rc_inc_aborts(dev[d].rc) :
          IF aborts
          THEN /\ dev' = [dev EXCEPT ![d] = vlc_decoder_device_Hold(@)]
               /\ fault' = "assert"
               /\ UNCHANGED <<thr, refs>>
          ELSE \E w \in {v \in W : v.ret = VLC_SUCCESS} :
           LET r == decoder_device_Open(vlc_decoder_device_Hold(dev[d]), b, w)
               log == Append(thr[t].tried, [b |-> b, ret |-> w.ret, wret |-> r[2]])
           IN /\ dev' = [dev EXCEPT ![d] =
                            [r[1] EXCEPT !.probes = @ + 1, !.module = b]]
              /\ thr' = [thr EXCEPT ![t].tried = log, ![t].w = w,
                                    ![t].cands = <<>>, ![t].pc = "cr_loaded"]
              /\ refs' = [refs EXCEPT !.dev[d] = @ + 1]
              /\ fault' = IF AssertFails(r[1].type # VLC_DECODER_DEVICE_NONE)
                          THEN "assert" ELSE fault
    /\ last' = NoCall
    /\ UNCHANGED <<ctx, asserts, decVars>>

\* The open protocol with backends that may keep a reference on the device
\* they open, in a build with assertions and in one without.
NextOpenHold ==
    \/ \E d \in DevIds : CreateBegin(Opener, d)
    \/ CreateNoMem(Opener)
    \/ OpenAttempt(Opener, PlainOpens)
    \/ OpenAttemptHold(Opener, PlainOpens)
    \/ LoadNone(Opener)
    \/ CreateFail(Opener)
    \/ CreateDone(Opener)
    \/ \E d \in DevIds : DevHold(Opener, d)
    \/ \E d \in DevIds : DevRelease(Opener, d)
    \/ DevClose(Opener)
    \/ DevClear(Opener)
    \/ DevDelete(Opener)

SpecOpenHold == InitOpen /\ [][NextOpenHold]_vars

\* One caller using a device and the contexts created on it or without it,
\* with every tag and table, through every operation of a context.
\* The backends' open routines succeed and install a table with close.
FrameOpens == {w \in PlainOpens : w.ret = VLC_SUCCESS /\ w.close}

NextFrame ==
    \/ \E d \in DevIds : CreateBegin(Opener, d)
    \/ OpenAttempt(Opener, FrameOpens)
    \/ LoadNone(Opener)
    \/ CreateFail(Opener)
    \/ CreateDone(Opener)
    \/ \E d \in DevIds : DevRelease(Opener, d)
    \/ DevClose(Opener)
    \/ DevClear(Opener)
    \/ DevDelete(Opener)
    \/ \E c \in CtxIds : CtxCreate(Opener, c, CtxTypes, PlainSizes)
    \/ GetPrivate(Opener)
    \/ GetType(Opener)
    \/ \E c \in CtxIds : CtxHold(Opener, c)
    \/ \E c \in CtxIds : CtxRelease(Opener, c)
    \/ CtxReleaseDevice(Opener)
    \/ CtxDestroy(Opener)
    \/ CtxFree(Opener)
    \/ \E c \in CtxIds : HoldDevice(Opener, c)

SpecFrame == Init /\ [][NextFrame]_vars

\* decoder_Init, decoder_Clean and decoder_Destroy on every decoder of
\* DecObjStates, with and without a callback table.
InitLife ==
    /\ dev = [d \in DevIds |-> DevNone]
    /\ ctx = [c \in CtxIds |-> CtxNone]
    /\ thr = [t \in Threads |-> ThrIdle]
    /\ refs = RefsZero
    /\ last = NoCall
    /\ fault = "none"
    /\ asserts = TRUE
    /\ decobj \in DecObjStates
    /\ \E cbs \in BOOLEAN :
          dec = [DecZero EXCEPT !.cat = decobj.fmt_in.i_cat, !.cbs = cbs]
    /\ dlast = NoDecCall

NextLife ==
    \/ DecInit
    \/ DecClean
    \/ DecDestroy

SpecLife == InitLife /\ [][NextLife]_vars

\* ------------------------------------------------------------------ properties
\* The threads inside the teardown of device d (lines 177-180).
DevTearing(d) ==
    {t \in Threads : thr[t].d = d /\ thr[t].pc \in {"dev_close", "dev_clear",
                                                   "dev_delete"}}

\* The threads inside the teardown of context c (lines 236-240), the nested
\* release of its device included.
CtxTearing(c) ==
    {t \in Threads : thr[t].c = c /\ thr[t].pc \in {"ctx_reldev", "dev_close",
                                                   "dev_clear", "dev_delete",
                                                   "ctx_destroy", "ctx_free"}}

\* Context c still owns the reference it took on device d.
CtxOwnsDev(c, d) ==
    /\ ctx[c].st = "live"
    /\ ctx[c].device = d
    /\ \A t \in CtxTearing(c) : thr[t].pc = "ctx_reldev"

\* The references on device d not yet given up: those of callers and those
\* of contexts.
DevOwners(d) == refs.dev[d] + Cardinality({c \in CtxIds : CtxOwnsDev(c, d)})

\* C1: under paired use, whatever the interleaving, the close hook of a
\* device and the destroy hook of a context run at most once, exactly once
\* when the teardown has passed them and the table has the hook; only one
\* thread ever tears an object down, and it does so only with the count at
\* zero and every other reference already given up; while the count is above
\* zero no hook has run and the object is not freed.
C1_ExactlyOnceTeardown ==
    /\ Running
    /\ \A d \in DevIds :
        /\ dev[d].nClose <= 1
        /\ Cardinality(DevTearing(d)) <= 1
        /\ DevTearing(d) # {} =>
              /\ dev[d].st = "live" /\ dev[d].rc = 0 /\ DevOwners(d) = 0
              /\ dev[d].nDelete = 0
        /\ \A t \in DevTearing(d) :
              thr[t].pc \in {"dev_clear", "dev_delete"} =>
                  dev[d].nClose = IF OpsHasClose(dev[d].ops) THEN 1 ELSE 0
        /\ dev[d].rcInit /\ dev[d].st = "freed" =>
              DevTearing(d) = {} /\ dev[d].nDelete = 1 /\ DevOwners(d) = 0
        /\ dev[d].st = "live" /\ dev[d].rc > 0 =>
              DevTearing(d) = {} /\ dev[d].nClose = 0 /\ dev[d].nDelete = 0
    /\ \A c \in CtxIds :
        /\ ctx[c].nDestroy <= 1
        /\ Cardinality(CtxTearing(c)) <= 1
        /\ CtxTearing(c) # {} =>
              ctx[c].st = "live" /\ ctx[c].rc = 0 /\ refs.ctx[c] = 0
              /\ ctx[c].nFree = 0
        /\ \A t \in CtxTearing(c) :
              /\ thr[t].pc = "ctx_free" =>
                    ctx[c].nDestroy = IF ctx[c].ops = CtxOpsDestroy THEN 1 ELSE 0
              /\ thr[t].pc # "ctx_free" => ctx[c].nDestroy = 0
        /\ ctx[c].st = "freed" =>
              CtxTearing(c) = {} /\ ctx[c].nFree = 1 /\ refs.ctx[c] = 0
        /\ ctx[c].st = "live" /\ ctx[c].rc > 0 =>
              CtxTearing(c) = {} /\ ctx[c].nDestroy = 0 /\ ctx[c].nFree = 0

\* C1 witness: two releases ran concurrently; one thread is in the close
\* step of the device while another is tearing down a context whose device
\* reference was not the last one.
C1_Witness ==
    \E t, u \in Threads, d \in DevIds, c \in CtxIds :
        /\ t # u
        /\ thr[t].pc = "dev_close" /\ thr[t].d = d /\ thr[t].c = 0
        /\ OpsHasClose(dev[d].ops)
        /\ thr[u].pc = "ctx_destroy" /\ thr[u].c = c
        /\ ctx[c].device = d /\ ctx[c].ops = CtxOpsDestroy

\* C6: a device passed to vlc_video_context_Create stays open and allocated
\* for as long as the context has not given up its own reference on it, that
\* is while the context's count is above zero and until its last Release
\* reaches line 237, whatever the other owners of the device have released.
C6_DeviceOutlivesContext ==
    \A c \in CtxIds, d \in DevIds :
        CtxOwnsDev(c, d) =>
            /\ dev[d].st = "live"
            /\ dev[d].rc >= 1
            /\ dev[d].nClose = 0
            /\ dev[d].nDelete = 0
            /\ DevTearing(d) = {}

\* C6 witness: every caller's reference on the device has been released and
\* the context alone keeps it open.
C6_Witness ==
    \E c \in CtxIds, d \in DevIds :
        /\ ctx[c].st = "live" /\ ctx[c].rc > 0 /\ ctx[c].device = d
        /\ refs.dev[d] = 0
        /\ dev[d].st = "live" /\ dev[d].rc = 1 /\ dev[d].nClose = 0

\* What one call of vlc_video_context_HoldDevice does.
C8_Step ==
    last'.op = "HoldDevice" =>
        LET c == last'.a
            d == ctx[c].device
        IN IF d = NULL
           THEN last'.ret = NULL /\ UNCHANGED <<dev, ctx, refs>>
           ELSE /\ last'.ret = d
                /\ dev'[d].rc = dev[d].rc + 1
                /\ \A e \in DevIds \ {d} : dev'[e] = dev[e]
                /\ ctx' = ctx

\* A device with an owner left is open and allocated.
C8_StillValid ==
    \A d \in DevIds :
        DevOwners(d) > 0 =>
            dev[d].st = "live" /\ dev[d].nClose = 0 /\ DevTearing(d) = {}

\* C8: vlc_video_context_HoldDevice on a context without device returns NULL
\* and changes no count; on a context with device D it returns D and raises
\* D's count by exactly one; and D stays open while the context or any other
\* holder keeps a reference, so releasing the returned one does not close it.
C8_HoldDevice == [](C8_StillValid) /\ [][C8_Step]_vars

\* C8 witness: HoldDevice has just returned the device, and its caller now
\* shares it with the context alone.
C8_Witness ==
    /\ last.op = "HoldDevice"
    /\ last.ret # NULL
    /\ dev[last.ret].rc = 2
    /\ refs.dev[last.ret] = 1
    /\ CtxOwnsDev(last.a, last.ret)

\* What vlc_video_context_GetPrivate has just returned.
C7_Value ==
    last.op = "GetPrivate" =>
        /\ last.ret # NULL <=> (last.a # NULL /\ ctx[last.a].ptype = last.b)
        /\ last.ret # NULL => last.ret = PrivAddr(last.a)

\* The tag a context stores is the one given to vlc_video_context_Create, and
\* a call of GetPrivate changes nothing.
C7_Step ==
    /\ last'.op = "CtxCreate" /\ last'.ret # NULL =>
           ctx'[last'.ret].ptype = last'.b
    /\ last'.op = "GetPrivate" => UNCHANGED <<dev, ctx, thr, refs, fault>>

\* C7: vlc_video_context_GetPrivate(ctx, t) returns the address of the
\* private payload exactly when ctx is not NULL and t is the tag stored at
\* creation, NULL otherwise, and changes no state.
C7_GetPrivate == [](C7_Value) /\ [][C7_Step]_vars

\* C7 witness: GetPrivate was called on a live context with a tag of another
\* backend and returned NULL.
C7_Witness ==
    /\ last.op = "GetPrivate"
    /\ last.a # NULL
    /\ last.b \in CtxTypes
    /\ last.b # ctx[last.a].ptype
    /\ last.ret = NULL

\* The threads inside vlc_decoder_device_Create for device d.
Creating(d) == {t \in Threads : thr[t].d = d /\ thr[t].pc \in {"cr_load", "cr_loaded"}}

\* C2 as claimed: when the k-th candidate is the first whose open routine
\* succeeds, the device vlc_decoder_device_Create returns is in that
\* backend's state: sys
\* and opaque are what it wrote or NULL, the kind tag and the operations
\* table are its own, no field holds what a failed candidate wrote, and the
\* close hook a later Release invokes is that backend's.
C2_DeviceInSelectedBackendState ==
    \A d \in DevIds :
        LET k == dev[d].module
        IN /\ \A t \in Creating(d) :
                thr[t].pc = "cr_loaded" /\ k # NULL =>
                    LET n == Len(thr[t].tried)
                        w == thr[t].w
                    IN /\ n = dev[d].probes
                       /\ thr[t].tried[n].b = k
                       /\ w.ret = VLC_SUCCESS
                       /\ \A i \in 1..(n - 1) :
                             /\ thr[t].tried[i].ret # VLC_SUCCESS
                             /\ thr[t].tried[i].b # k
                       /\ dev[d].sys = (IF w.sys THEN k ELSE NULL)
                       /\ dev[d].opaque = (IF w.opaque THEN k ELSE NULL)
                       /\ dev[d].type = k
                       /\ dev[d].ops = OpsTable(k, w.close)
           /\ dev[d].st = "live" =>
                /\ k # NULL
                /\ dev[d].sys \in {NULL, k}
                /\ dev[d].opaque \in {NULL, k}
                /\ dev[d].type = k
                /\ dev[d].ops # NULL /\ OpsOwner(dev[d].ops) = k
           /\ dev[d].nClose > 0 => dev[d].closeBy = k /\ k # NULL

\* The probes that failed, among those logged by thread t.
FailedProbes(t) ==
    {i \in 1..Len(thr[t].tried) : thr[t].tried[i].ret # VLC_SUCCESS}

\* C3: when a candidate's open routine fails, decoder_device_Open returns
\* with sys and opaque NULL, the kind tag NONE and the resources registered
\* on the object cleared, and returns the routine's own error code; so every
\* open routine starts on a device with sys NULL and kind tag NONE.
C3_FailedOpenRolledBack ==
    \A d \in DevIds : \A t \in Creating(d) :
        LET n == Len(thr[t].tried)
        IN /\ \A i \in 1..n : thr[t].tried[i].wret = thr[t].tried[i].ret
           /\ n > 0 => thr[t].tried[n].ret = thr[t].w.ret
           /\ dev[d].nClear = Cardinality(FailedProbes(t))
           /\ n > 0 /\ n \in FailedProbes(t) =>
                /\ dev[d].sys = NULL
                /\ dev[d].opaque = NULL
                /\ dev[d].type = VLC_DECODER_DEVICE_NONE
                /\ dev[d].res = 0
           /\ thr[t].pc = "cr_load" =>
                /\ dev[d].sys = NULL
                /\ dev[d].type = VLC_DECODER_DEVICE_NONE
                /\ dev[d].res = 0

\* C3 witness: an open routine wrote sys, opaque, its kind tag and its table,
\* registered a resource and failed with VLC_ENOMEM, and another candidate is
\* about to be probed.
C3_Witness ==
    \E t \in Threads :
        /\ thr[t].pc = "cr_load"
        /\ thr[t].cands # <<>>
        /\ thr[t].tried # <<>>
        /\ thr[t].w.sys /\ thr[t].w.opaque /\ thr[t].w.type /\ thr[t].w.ops
        /\ thr[t].w.res
        /\ thr[t].w.ret = VLC_ENOMEM
        /\ thr[t].tried[Len(thr[t].tried)].wret = VLC_ENOMEM

\* C4: when no candidate's open routine succeeds, vlc_decoder_device_Create
\* returns NULL, the object is deleted exactly once, no close hook runs on
\* it, its count is never initialised and no reference to it exists.
C4_CreateFailsCleanly ==
    \A d \in DevIds :
        /\ dev[d].module = NULL =>
              /\ dev[d].st \in {"none", "alloc", "freed"}
              /\ ~dev[d].rcInit
              /\ dev[d].rc = 0
              /\ dev[d].nClose = 0
              /\ refs.dev[d] = 0
              /\ dev[d].nDelete = (IF dev[d].st = "freed" THEN 1 ELSE 0)
              /\ dev[d].st = "alloc" => Creating(d) # {}
        /\ last.op = "DevCreate" /\ last.a # NULL /\ dev[last.a].module = NULL =>
              last.ret = NULL /\ dev[last.a].st = "freed"

\* C4 witness: every installed backend was probed and failed, and Create
\* returned NULL after deleting the object.
C4_Witness ==
    \E d \in DevIds :
        /\ last = Call("DevCreate", d, 0, NULL)
        /\ dev[d].st = "freed"
        /\ dev[d].module = NULL
        /\ dev[d].probes = NBackends
        /\ dev[d].nDelete = 1

\* C5 as claimed: a device returned by vlc_decoder_device_Create has a kind tag other
\* than NONE, an operations table, and a count of exactly one; neither
\* assertion (lines 133 and 156) ever fails.
C5_CreatedDeviceWellFormed ==
    /\ fault # "assert"
    /\ \A d \in DevIds :
        /\ dev[d].st = "live" =>
              /\ dev[d].type # VLC_DECODER_DEVICE_NONE
              /\ dev[d].ops # NULL
              /\ dev[d].rcInit
        /\ \A t \in Creating(d) :
              thr[t].pc = "cr_loaded" /\ dev[d].module # NULL =>
                  dev[d].type # VLC_DECODER_DEVICE_NONE /\ dev[d].ops # NULL
    /\ last.op = "DevCreate" /\ last.ret # NULL =>
          /\ dev[last.ret].st = "live"
          /\ dev[last.ret].rc = 1
          /\ refs.dev[last.ret] = 1

\* decoder_UpdateVideoOutput must refuse the decoder: wrong category, no
\* callback table, or no format_update hook.
C9_Refused == dec.cat # VIDEO_ES \/ ~dec.cbs \/ ~dec.format_update

\* What the call does when it goes through: format_update once, with the
\* context given, and its result returned.
C9_Forwarded ==
    /\ dlast.outcome = "returned"
    /\ dlast.hook = "format_update"
    /\ dlast.hookArg = dlast.arg
    /\ dlast.ret = dlast.hookRet

\* C9 as claimed: decoder_UpdateVideoOutput returns an error code and invokes
\* no callback whenever the category is not video, cbs is absent or
\* format_update is unset; otherwise it invokes format_update once with the
\* given context and returns its result.
C9_AlwaysReturnsError ==
    dlast.op = "UpdateVideoOutput" =>
        IF C9_Refused
        THEN dlast.outcome = "returned" /\ dlast.ret < 0 /\ dlast.hook = "none"
        ELSE C9_Forwarded

\* C9 as amended: in those cases no callback is invoked, and the call returns
\* the error code -1, except that a build with assertions aborts at line 86,
\* before the test, when the category is not video or cbs is absent;
\* otherwise format_update is invoked once with the given context and its
\* result returned.
C9_ErrorOrAbort ==
    dlast.op = "UpdateVideoOutput" =>
        IF C9_Refused
        THEN /\ dlast.hook = "none"
             /\ IF asserts /\ (dec.cat # VIDEO_ES \/ ~dec.cbs)
                THEN dlast.outcome = "abort"
                ELSE dlast.outcome = "returned" /\ dlast.ret = -1
        ELSE C9_Forwarded

\* C9 witness: without assertions, an audio decoder whose table has a
\* format_update hook was refused with -1 and the hook left alone.
C9_Witness ==
    /\ dlast.op = "UpdateVideoOutput"
    /\ ~asserts
    /\ dec.cat = AUDIO_ES /\ dec.cbs /\ dec.format_update
    /\ dlast.outcome = "returned" /\ dlast.ret = -1 /\ dlast.hook = "none"

\* C10 as claimed: every video helper called on a decoder that is not video
\* or has no callback table ends in a defined outcome, invokes no callback,
\* allocates no picture and reads no hook through the absent table.
C10_DefinedOnMisuse ==
    /\ dlast.op \in {"UpdateVideoOutput", "UpdateVideoFormat", "NewPicture",
                     "AbortPictures"}
    /\ dec.cat # VIDEO_ES \/ ~dec.cbs
    => /\ dlast.outcome \in {"returned", "abort"}
       /\ dlast.hook = "none"
       /\ dlast.pictures = 0
       /\ ~dlast.nullRead

\* C12: decoder_UpdateVideoFormat(dec) does what decoder_UpdateVideoOutput(dec,
\* NULL) does on the same decoder: the same outcome and return value, and the
\* same invocation of format_update, with a NULL context, or none at all.
C12_FormatIsOutputWithoutContext ==
    dlast.op = "UpdateVideoFormat" =>
        /\ dlast.arg = NULL
        /\ dlast.hook = "format_update" => dlast.hookArg = NULL
        /\ \E hookRet \in FormatUpdateResults :
              [dlast EXCEPT !.op = "UpdateVideoOutput"] =
                  decoder_UpdateVideoOutput(dec, NULL, hookRet)

\* C12 witness: decoder_UpdateVideoFormat forwarded to format_update with a
\* NULL context and returned the hook's error.
C12_Witness ==
    /\ dlast.op = "UpdateVideoFormat"
    /\ dlast.outcome = "returned"
    /\ dlast.hook = "format_update"
    /\ dlast.hookArg = NULL
    /\ dlast.ret = VLC_EGENERIC

\* C18: on a video decoder with a callback table, decoder_NewPicture either
\* invokes buffer_new once and returns its result without allocating, when
\* the hook is set, or invokes no callback and returns the result of one
\* default allocation, when it is not.
C18_NewPictureDelegatesOrAllocates ==
    dlast.op = "NewPicture" /\ dec.cat = VIDEO_ES /\ dec.cbs =>
        /\ dlast.outcome = "returned"
        /\ ~dlast.nullRead
        /\ IF dec.buffer_new
           THEN /\ dlast.hook = "buffer_new"
                /\ dlast.ret = dlast.hookRet
                /\ dlast.ret \in {NULL, OwnerPicture}
                /\ dlast.pictures = 0
           ELSE /\ dlast.hook = "none"
                /\ dlast.pictures = 1
                /\ dlast.ret \in {NULL, DefaultPicture}

\* C18 witness: the owner's buffer_new hook supplied the picture.
C18_Witness ==
    /\ dlast.op = "NewPicture"
    /\ dec.cat = VIDEO_ES /\ dec.cbs /\ dec.buffer_new
    /\ dlast.hook = "buffer_new"
    /\ dlast.ret = OwnerPicture

\* C13: under paired use the count of a device equals the references not yet
\* given up on it (those of callers: the creation, each Hold, each HoldDevice
\* result; and one per context created on it that has not released it), and
\* the count of a context equals the references callers hold on it; so the
\* count is at least one, and the object neither torn down nor freed, while
\* an owner remains.
C13_CountEqualsOwners ==
    /\ Running
    /\ \A d \in DevIds :
        /\ dev[d].st \in {"alloc", "live"} => dev[d].rc = DevOwners(d)
        /\ DevOwners(d) > 0 =>
              dev[d].st = "live" /\ dev[d].rc >= 1 /\ DevTearing(d) = {}
        /\ dev[d].st = "freed" \/ DevTearing(d) # {} => DevOwners(d) = 0
    /\ \A c \in CtxIds :
        /\ ctx[c].st = "live" => ctx[c].rc = refs.ctx[c]
        /\ refs.ctx[c] > 0 =>
              ctx[c].st = "live" /\ ctx[c].rc >= 1 /\ CtxTearing(c) = {}
        /\ ctx[c].st = "freed" \/ CtxTearing(c) # {} => refs.ctx[c] = 0

\* C13 witness: a device at count two, one reference held by a caller and
\* one by a context, itself shared by two holders.
C13_Witness ==
    \E d \in DevIds, c \in CtxIds :
        /\ dev[d].st = "live" /\ dev[d].rc = 2
        /\ refs.dev[d] = 1 /\ CtxOwnsDev(c, d)
        /\ ctx[c].rc = 2 /\ refs.ctx[c] = 2

\* C19 as claimed: no reference taken on the device before the count is
\* initialised is lost; once vlc_decoder_device_Create has returned, the
\* count of the device equals the references not yet given up on it, and no
\* owner finds the device gone.
C19_NoReferenceLost ==
    /\ fault # "ub"
    /\ \A d \in DevIds :
          dev[d].st = "live" /\ dev[d].rcInit => dev[d].rc = DevOwners(d)

\* Where the teardown of a context stands, for each thread inside it: the
\* nested release of the device comes before the destroy hook, the hook
\* before free(), and the hook is given the address of the payload.
C14_Order ==
    \A c \in CtxIds : \A t \in CtxTearing(c) :
        LET d == ctx[c].device
        IN /\ ctx[c].st = "live" /\ ctx[c].nFree = 0
           /\ thr[t].pc # "ctx_free" => ctx[c].nDestroy = 0
           /\ thr[t].pc = "ctx_reldev" => CtxOwnsDev(c, d) \/ d = NULL
           /\ thr[t].pc \in {"dev_close", "dev_clear", "dev_delete"} =>
                 d # NULL /\ thr[t].d = d /\ dev[d].rc = 0
           /\ thr[t].pc \in {"ctx_destroy", "ctx_free"} /\ d # NULL =>
                 /\ ~CtxOwnsDev(c, d)
                 /\ DevOwners(d) = 0 =>
                       \/ dev[d].st = "freed"
                             /\ dev[d].nClose = (IF dev[d].closeBy # 0 THEN 1 ELSE 0)
                       \/ DevTearing(d) \ {t} # {}
           /\ thr[t].pc = "ctx_free" =>
                 /\ ctx[c].nDestroy = (IF ctx[c].ops = CtxOpsDestroy THEN 1 ELSE 0)
                 /\ ctx[c].nDestroy = 1 =>
                       ctx[c].destroyArg = PrivAddr(c) /\ ctx[c].destroyArg # NULL

\* The steps of the teardown: the destroy hook runs only in the step from
\* line 238 to line 240, after the device reference was given up; the storage
\* is freed only after that step; and the close hook of the device, when the
\* teardown of the context runs it, runs before the destroy hook.
C14_Step ==
    \A c \in CtxIds :
        /\ ctx'[c].nDestroy # ctx[c].nDestroy =>
              /\ \E t \in Threads : /\ thr[t].c = c /\ thr[t].pc = "ctx_destroy"
                                     /\ thr'[t].pc = "ctx_free"
              /\ ctx[c].device # NULL => ~CtxOwnsDev(c, ctx[c].device)
              /\ ctx'[c].destroyArg = PrivAddr(c)
              /\ ctx'[c].st = "live"
        /\ ctx'[c].nFree # ctx[c].nFree =>
              \E t \in Threads : thr[t].c = c /\ thr[t].pc = "ctx_free"
        /\ \A t \in Threads :
              /\ thr[t].c = c /\ thr[t].pc = "ctx_reldev" =>
                    thr'[t].pc \in {"ctx_reldev", "dev_close", "ctx_destroy"}
              /\ thr[t].c = c /\ thr[t].pc = "dev_close"
                           /\ dev'[thr[t].d].nClose # dev[thr[t].d].nClose =>
                    ctx[c].nDestroy = 0 /\ ctx'[c].nDestroy = 0

\* C14: when the count of a video context reaches zero, its device reference
\* is released first, then the destroy hook, if the table has one, is invoked
\* with the address of the private payload, never NULL, then the storage is
\* freed; when the context held the last reference on its device, the close
\* hook of the device runs before the destroy hook of the context.
C14_ContextTeardownOrder == [](C14_Order) /\ [][C14_Step]_vars

\* C14 witness: the context held the last reference on its device; the
\* device was closed and deleted, then the destroy hook ran with the payload,
\* and the storage is about to be freed.
C14_Witness ==
    \E t \in Threads, c \in CtxIds :
        /\ thr[t].pc = "ctx_free" /\ thr[t].c = c
        /\ ctx[c].nDestroy = 1 /\ ctx[c].destroyArg = PrivAddr(c)
        /\ ctx[c].device # NULL
        /\ dev[ctx[c].device].st = "freed"
        /\ dev[ctx[c].device].nClose = 1

\* The operations table installed on a device has a close hook.
C15_TableHasClose(ops) == \E b \in Backends : ops = OpsTable(b, TRUE)

\* Where the teardown of a device stands, for each thread inside it: close
\* not yet called at line 177, called once if the table has it (and not at
\* all if it has not) from line 179 on, the resources cleared before line 180.
\* A device without a table, which only the build without assertions
\* returns, does not get past line 177.
C15_Order ==
    \A d \in DevIds : \A t \in DevTearing(d) :
        /\ dev[d].st = "live" /\ dev[d].nDelete = 0
        /\ dev[d].ops = NULL => thr[t].pc = "dev_close" /\ ~asserts
        /\ thr[t].pc = "dev_close" => dev[d].nClose = 0
        /\ thr[t].pc \in {"dev_clear", "dev_delete"} =>
              /\ dev[d].nClose = (IF C15_TableHasClose(dev[d].ops) THEN 1 ELSE 0)
              /\ dev[d].nClose = 1 => dev[d].closeBy = OpsOwner(dev[d].ops)
        /\ thr[t].pc = "dev_delete" => dev[d].res = 0

\* The steps of the teardown: the close hook runs only in the step from line
\* 177 to line 179, on a live object whose resources that step leaves alone;
\* a table without close makes that step a no-op that fails nothing; the
\* resources are cleared next and the object is deleted last.
C15_Step ==
    \A d \in DevIds :
        /\ dev'[d].nClose # dev[d].nClose =>
              /\ \E t \in Threads : /\ thr[t].d = d /\ thr[t].pc = "dev_close"
                                     /\ thr'[t].pc = "dev_clear"
              /\ dev[d].st = "live" /\ dev'[d].st = "live"
              /\ dev'[d].res = dev[d].res /\ dev'[d].nClear = dev[d].nClear
              /\ C15_TableHasClose(dev[d].ops)
              /\ dev'[d].nClose = dev[d].nClose + 1
        /\ \A t \in Threads : thr[t].d = d /\ thr'[t] # thr[t] =>
              /\ thr[t].pc = "dev_close" =>
                    thr'[t].pc = "dev_clear" /\ fault' = "none"
              /\ thr[t].pc = "dev_clear" =>
                    /\ thr'[t].pc = "dev_delete"
                    /\ dev'[d].nClose = dev[d].nClose /\ dev'[d].st = "live"
              /\ thr[t].pc = "dev_delete" =>
                    dev'[d].st = "freed" /\ dev'[d].nClose = dev[d].nClose
        /\ dev[d].st = "live" /\ dev'[d].st = "freed" =>
              \E t \in Threads : thr[t].d = d /\ thr[t].pc = "dev_delete"

\* C15: when the count of a device reaches zero, vlc_decoder_device_Release
\* calls the close hook if the table has one, and skips it without error if
\* not, then clears the resources of the object, then deletes the object;
\* close never runs on an object already cleared by the Release or deleted.
C15_DeviceTeardownOrder == [](C15_Order) /\ [][C15_Step]_vars

\* C15 witness: a device whose table has no close hook went through line 177
\* untouched, had its resources cleared and is about to be deleted.
C15_Witness ==
    \E t \in Threads :
        /\ thr[t].pc = "dev_delete"
        /\ ~C15_TableHasClose(dev[thr[t].d].ops)
        /\ dev[thr[t].d].nClose = 0
        /\ dev[thr[t].d].probes = 2
        /\ dev[thr[t].d].nClear = 2

\* The backends of a probe log, in the order probed.
C16_Probed(log) == [i \in 1..Len(log) |-> log[i].b]

\* During vlc_decoder_device_Create: one thread at most is probing a device,
\* every probe but the last one failed, a successful probe ends the search,
\* no candidate is probed twice, and with a name from "dec-dev" no other
\* module than the one so named is probed or waiting to be.
C16_Order ==
    \A d \in DevIds :
        /\ Cardinality(Creating(d)) <= 1
        /\ \A t \in Creating(d) :
              LET n == Len(thr[t].tried)
              IN /\ n = dev[d].probes
                 /\ \A i \in 1..(n - 1) : thr[t].tried[i].ret # VLC_SUCCESS
                 /\ n > 0 /\ thr[t].tried[n].ret = VLC_SUCCESS =>
                       /\ thr[t].cands = <<>>
                       /\ thr[t].pc = "cr_loaded"
                       /\ dev[d].module = thr[t].tried[n].b
                 /\ NoRepeat(C16_Probed(thr[t].tried) \o thr[t].cands)
                 /\ thr[t].name # NULL =>
                       /\ \A i \in 1..n : thr[t].tried[i].b = thr[t].name
                       /\ \A i \in 1..Len(thr[t].cands) :
                             thr[t].cands[i] = thr[t].name
                 /\ thr[t].name \notin Backends \cup {NULL} =>
                       n = 0 /\ thr[t].cands = <<>>

\* The steps of the search: each probe is of the first candidate left, a
\* failed probe leaves the others waiting in their order, candidates leave
\* the list only by being probed or by a success, and without a name the
\* search starts from the whole priority list.
C16_Step ==
    \A t \in Threads :
        LET n == Len(thr[t].tried)
        IN /\ thr[t].pc = "cr_load" /\ thr'[t] # thr[t] /\ thr[t].cands # <<>> =>
                 /\ Len(thr'[t].tried) = n + 1
                 /\ thr'[t].tried = Append(thr[t].tried, thr'[t].tried[n + 1])
                 /\ thr'[t].tried[n + 1].b = Head(thr[t].cands)
                 /\ thr'[t].cands = IF thr'[t].tried[n + 1].ret = VLC_SUCCESS
                                    THEN <<>> ELSE Tail(thr[t].cands)
                 /\ dev'[thr[t].d].probes = dev[thr[t].d].probes + 1
           /\ thr[t].pc = "cr_load" /\ thr[t].cands = <<>> =>
                 thr'[t].tried = thr[t].tried /\ dev' = dev
           /\ thr[t].pc = "cr_loaded" => dev'[thr[t].d].probes = dev[thr[t].d].probes
           /\ thr[t].pc = "idle" /\ thr'[t].pc = "cr_load" =>
                 /\ thr'[t].tried = <<>>
                 /\ thr'[t].name = NULL => thr'[t].cands \in Installed

\* C16: during vlc_decoder_device_Create the open routines of the candidates
\* run one after another on the device, in the order of the selector, none
\* after the first that succeeded; with a name configured in "dec-dev" only
\* the implementation so named is tried.
C16_ProbesInOrderUntilSuccess == [](C16_Order) /\ [][C16_Step]_vars

\* C16 witness: "dec-dev" names an installed module, its open routine
\* failed, and the search ended there without probing another.
C16_Witness ==
    \E t \in Threads :
        /\ thr[t].pc = "cr_loaded"
        /\ thr[t].name \in Backends
        /\ Len(thr[t].tried) = 1
        /\ thr[t].tried[1].b = thr[t].name
        /\ thr[t].tried[1].ret # VLC_SUCCESS
        /\ dev[thr[t].d].module = NULL

\* vlc_video_context_Create stores what it was given, and
\* vlc_video_context_GetType returns the tag stored.
C20_Stored ==
    /\ last.op = "CtxCreate" /\ last.ret # NULL =>
          /\ ctx[last.ret].device = last.a
          /\ ctx[last.ret].ptype = last.b
          /\ ctx[last.ret].psize \in PrivSizes
          /\ ctx[last.ret].ops \in CtxOpsValues
    /\ last.op = "GetType" => last.ret = ctx[last.a].ptype /\ last.ret \in CtxTypes

\* No step changes the tag, the size, the table or the device link of a
\* context that exists before and after it, and no step on a context that
\* has no device (an accessor, a Hold, a Release, a step of its teardown)
\* changes a device.
C20_Step ==
    \A c \in CtxIds :
        /\ ctx[c].st = "live" /\ ctx'[c].st = "live" =>
              /\ ctx'[c].ptype = ctx[c].ptype
              /\ ctx'[c].psize = ctx[c].psize
              /\ ctx'[c].ops = ctx[c].ops
              /\ ctx'[c].device = ctx[c].device
        /\ ctx[c].st = "live" /\ ctx[c].device = NULL =>
              /\ last'.op \in {"GetPrivate", "GetType", "CtxHold", "HoldDevice"}
                     /\ last'.a = c => dev' = dev /\ refs'.dev = refs.dev
              /\ refs'.ctx[c] # refs.ctx[c] => dev' = dev
              /\ (\E t \in CtxTearing(c) : thr'[t] # thr[t]) => dev' = dev
        /\ last'.op = "CtxCreate" /\ last'.ret = c /\ last'.a = NULL => dev' = dev

\* C20: the tag, the private size, the table and the device link of a video
\* context are set by vlc_video_context_Create and changed by no later
\* operation until the context is destroyed; vlc_video_context_GetType
\* returns the tag given at creation, and a context created without a device
\* changes the count of no device.
C20_ContextFieldsFixed == [](C20_Stored) /\ [][C20_Step]_vars

\* C20 witness: a context with the second tag, created on a device it
\* shares with one caller, answers GetType with that tag.
C20_Witness ==
    /\ last.op = "GetType"
    /\ last.ret = 2
    /\ ctx[last.a].device # NULL
    /\ ctx[last.a].rc = 1
    /\ dev[ctx[last.a].device].rc = 2
    /\ refs.dev[ctx[last.a].device] = 1

\* After decoder_Clean: no module, no description, and descriptors that own
\* nothing; the module was unloaded and the description deleted at most once.
C11_After ==
    dlast.op = "Clean" =>
        /\ decobj.p_module = NULL
        /\ decobj.p_description = NULL
        /\ decobj.fmt_in.extra = "none" /\ decobj.fmt_in.i_extra = 0
        /\ decobj.fmt_out.extra = "none" /\ decobj.fmt_out.i_extra = 0
        /\ decobj.nUnneed <= 1
        /\ decobj.nMetaDelete <= 1

\* A decoder_Clean that follows a decoder_Clean unloads, deletes and frees
\* nothing and leaves the decoder as the first one left it; any
\* decoder_Clean unloads the module it finds, and deletes the description it
\* finds, once.
C11_Step ==
    dlast'.op = "Clean" /\ decobj' # decobj =>
        /\ dlast.op # "Clean"
        /\ decobj'.nUnneed = decobj.nUnneed + (IF decobj.p_module # NULL THEN 1 ELSE 0)
        /\ decobj'.nMetaDelete =
              decobj.nMetaDelete + (IF decobj.p_description # NULL THEN 1 ELSE 0)

\* C11: decoder_Clean is idempotent: two calls in a row unload the module
\* and delete the description at most once, and the second call leaves the
\* decoder as the first one left it: no module, no description, both format
\* descriptors released.
C11_CleanIdempotent == [](C11_After) /\ [][C11_Step]_vars

\* C11 witness: decoder_Clean ran on a decoder with a module, a description
\* and extradata in both descriptors, and released each of them once.
C11_Witness ==
    /\ dlast.op = "Clean"
    /\ decobj.st = "live"
    /\ decobj.nUnneed = 1
    /\ decobj.nMetaDelete = 1
    /\ decobj.nExtraFree = 2

\* After decoder_Init(dec, fmt): the slots are empty, the policy off, the
\* count of extra pictures zero, fmt_in is a copy of fmt that does not share
\* its extradata buffer, fmt_out has the category of fmt and codec zero.
C17_After ==
    dlast.op = "Init" =>
        LET fmt == dlast.arg
        IN /\ decobj.p_module = NULL
           /\ decobj.pf_decode = NULL /\ decobj.pf_get_cc = NULL
           /\ decobj.pf_packetize = NULL /\ decobj.pf_flush = NULL
           /\ ~decobj.b_frame_drop_allowed
           /\ decobj.i_extra_picture_buffers = 0
           /\ decobj.fmt_in.i_cat = fmt.i_cat
           /\ decobj.fmt_in.i_codec = fmt.i_codec
           /\ decobj.fmt_in.i_extra = fmt.i_extra
           /\ decobj.fmt_in.extra # "caller"
           /\ decobj.fmt_in.extra = "decoder" <=> fmt.i_extra > 0
           /\ decobj.fmt_out = es_format_Init(fmt.i_cat, 0)
           /\ dec.cat = fmt.i_cat

\* decoder_Init leaves the callback table, its hooks and the description
\* object as they were.
C17_Step ==
    dlast'.op = "Init" =>
        /\ dec'.cbs = dec.cbs
        /\ dec'.format_update = dec.format_update
        /\ dec'.buffer_new = dec.buffer_new
        /\ dec'.abort_pictures = dec.abort_pictures
        /\ decobj'.p_description = decobj.p_description

\* C17: after decoder_Init(dec, fmt), whatever the decoder held before, the
\* module slot and the decode, get_cc, packetize and flush slots are empty,
\* frame dropping is off, the count of extra picture buffers is zero, the
\* input descriptor is a copy of fmt and the output descriptor has the
\* category of fmt with codec zero; cbs and the description are untouched.
C17_InitResetsDecoder == [](C17_After) /\ [][C17_Step]_vars

\* C17 witness: decoder_Init ran with an audio format carrying extradata on a
\* decoder that has a callback table and a description.
C17_Witness ==
    /\ dlast.op = "Init"
    /\ dlast.arg.i_cat = AUDIO_ES /\ dlast.arg.i_extra > 0
    /\ decobj.fmt_in.extra = "decoder"
    /\ decobj.p_description # NULL
    /\ dec.cbs

====
